---- MODULE Spec2Model ----
(***************************************************************************)
(* A model of the pool game of src/Game.py and src/entities.py: the run    *)
(* loop, the update pass over the entity list, the shot lifecycle, potting *)
(* and respawning.                                                         *)
(*                                                                         *)
(* Positions and velocities are real-valued in the program.  The model     *)
(* keeps of a velocity and of an acceleration only whether it is the zero  *)
(* vector, and of a position only the region it lies in:                   *)
(*   "home"   exactly the top-left corner the entity was constructed with  *)
(*   "centre" exactly the constructor's centre argument taken as top-left  *)
(*            corner (BlackBall and GoldBall store it as start_pos)        *)
(*   "table"  some position out of range of every hole, where the layout   *)
(*            puts every ball and where a running animation keeps it       *)
(*   "hole"   a position within (R + HOLE_R) of a hole                     *)
(* What the numeric physics decides (does the ball still move after the    *)
(* update, did it run into something, did it come in range of a hole) is   *)
(* chosen nondeterministically among the outcomes the code can produce.    *)
(* src/layout.py defines no "black-ball" or "gold-ball" entry although     *)
(* Game.reset reads them; the model takes their positions as given.        *)
(***************************************************************************)
EXTENDS Integers, Sequences, FiniteSets, TLC

VARIABLES
    pc,            \* where the program is: "constructed", "play" (the loop of
                   \* run), "game_over" (the loop of game_over), "exited"
    playing, quit, shots_left, shot, score,     \* the fields of Game
    entities, ents_to_add,                      \* game.entities, game.ents_to_add
    particles,     \* len(game.particles)
    player_speed,  \* game.player.speed > 0
    events,        \* the events the last pg.event.get() returned
    mouse,         \* pg.mouse.get_pressed()[0] as last polled
    ticked,        \* the clock has ticked, so get_time() is no longer 0
    ball_moving,   \* ball_moving at the end of the last update pass
    starts,        \* calls of start_shot during the last update pass
    involved,      \* the balls this game's collisions may involve
    pots,          \* pots that scored since the game began
    bench          \* two bodies on one line with their coordinates, for the
                   \* arithmetic of Entity.update (see "The physics bench")

vars == <<pc, playing, quit, shots_left, shot, score, entities, ents_to_add,
          particles, player_speed, events, mouse, ticked, ball_moving, starts,
          involved, pots, bench>>

---------------------------------------------------------------------------
(* Bounds of the model *)

\* red balls on the table (LAYOUT["red-balls"] holds five)
NumRed == 2
\* blue balls on the table (LAYOUT["blue-balls"] holds five)
NumBlue == 1
\* classes of balls, beside the cue ball, that are run into during one game
MaxClasses == 1
\* balls in motion or under a force at one time
MaxActive == 2
\* scoring pots explored in one game
MaxPots == 2
\* text popups alive at the end of a pass
MaxParticles == 1
\* shots explored in full at the start and at the end of a game
ShotWindow == 1

(* Program constants *)

START_SHOTS == 30
RED_POINTS == 1
CLEAR_POINTS == 20
BLUE_POINTS == 4
BLACK_PENALTY == 5
GOLD_POINTS == 7

---------------------------------------------------------------------------
(* Entities *)

BallKinds == {"Player", "RedBall", "BlueBall", "BlackBall", "GoldBall"}
RespawnKinds == {"BlueBall", "BlackBall", "GoldBall"}

\* isinstance(entity, Ball)
IsBall(e) == e.kind \in BallKinds

\* Entity.__init__ and Ball.__init__: a new entity at its constructed place
NewEntity(kind, id) ==
    [kind |-> kind, id |-> id, vel |-> FALSE, acc |-> FALSE, potted |-> FALSE,
     to_remove |-> FALSE, pos |-> "table", anim |-> "off"]

\* the value of self.start_pos: Entity.__init__ stores the top-left corner,
\* BlackBall.__init__ and GoldBall.__init__ overwrite it with the centre
StartPos(e) == IF e.kind \in {"BlackBall", "GoldBall"} THEN "centre" ELSE "home"

\* Ball.start_animation: the animation's centre is taken from the position
\* the ball has when the animation starts
start_animation(e) == [e EXCEPT !.anim = e.pos]

RedIds == 2 .. (1 + NumRed)
BlueIds == (2 + NumRed) .. (1 + NumRed + NumBlue)
BlackId == 2 + NumRed + NumBlue
GoldId == 3 + NumRed + NumBlue
FirstWallId == 4 + NumRed + NumBlue
WallIds == FirstWallId .. (FirstWallId + 3)

\* Game.reset and Game.generate_walls: the entity list of a new game
InitialEntities ==
    <<NewEntity("Player", 1)>>
    \o [i \in 1 .. NumRed |-> NewEntity("RedBall", 1 + i)]
    \o [i \in 1 .. NumBlue |-> NewEntity("BlueBall", 1 + NumRed + i)]
    \o <<NewEntity("BlackBall", BlackId), NewEntity("GoldBall", GoldId)>>
    \o [i \in 1 .. 4 |-> NewEntity("Wall", 3 + NumRed + NumBlue + i)]

---------------------------------------------------------------------------
(* The state an update pass works on: st.ents is game.entities, the list   *)
(* being iterated; st.kept is new_entities; st.moving is ball_moving.      *)

\* the balls with a non-zero velocity or acceleration
Active(ents) ==
    Cardinality({j \in 1 .. Len(ents) : ents[j].vel \/ ents[j].acc})

\* Game.start_shot
start_shot(st) == [st EXCEPT !.shot = TRUE, !.starts = st.starts + 1]

\* Game.add_particle
add_particle(st) == [st EXCEPT !.parts = st.parts + 1]

\* Game.add_entity
add_entity(st, ent) == [st EXCEPT !.add = Append(st.add, ent)]

\* Entity.remove
remove(e) == [e EXCEPT !.to_remove = TRUE]

SetEnt(st, i, e) == [st EXCEPT !.ents[i] = e]

\* a pot that reached the statements changing the score
Counted(st) == [st EXCEPT !.pots = st.pots + 1]

---------------------------------------------------------------------------
(* pot: what each class does when the ball is in range of a hole *)

\* Ball.pot without the removal; C7 must tell it from Ball.pot
Ball_pot_kept(st, i) ==
    LET s1 == add_particle([st EXCEPT !.score = st.score + RED_POINTS])
        e == [s1.ents[i] EXCEPT !.potted = TRUE]
    IN Counted(SetEnt(s1, i, e))

\* Ball.pot, reached by a red ball through super().pot: one point, removal
Ball_pot(st, i) ==
    LET s1 == add_particle([st EXCEPT !.score = st.score + RED_POINTS])
        e == [s1.ents[i] EXCEPT !.potted = TRUE]
    IN Counted(SetEnt(s1, i, remove(e)))

\* the test of RedBall.pot: no other RedBall in game.entities
NoOtherRed(ents, i) ==
    \A j \in 1 .. Len(ents) : ents[j].kind # "RedBall" \/ j = i

\* RedBall.pot
RedBall_pot(st, i) ==
    IF st.ents[i].potted THEN st
    ELSE IF NoOtherRed(st.ents, i)
    THEN LET s1 == add_particle([st EXCEPT !.score = st.score + CLEAR_POINTS])
             e == [s1.ents[i] EXCEPT !.vel = FALSE, !.potted = TRUE]
         IN Counted(SetEnt(s1, i, e))
    ELSE Ball_pot(st, i)

\* the shared pot body leaving the ball unmarked; C5 must tell it from
\* ScoringPot
ScoringPot_unmarked(st, i, newscore) ==
    IF st.ents[i].potted THEN st
    ELSE LET s1 == add_particle([st EXCEPT !.score = newscore])
             e == [s1.ents[i] EXCEPT !.vel = FALSE]
         IN Counted(SetEnt(s1, i, e))

\* the body shared by BlueBall.pot, BlackBall.pot and GoldBall.pot once the
\* new score is computed
ScoringPot(st, i, newscore) ==
    IF st.ents[i].potted THEN st
    ELSE LET s1 == add_particle([st EXCEPT !.score = newscore])
             e == [s1.ents[i] EXCEPT !.vel = FALSE, !.potted = TRUE]
         IN Counted(SetEnt(s1, i, e))

\* BlueBall.pot
BlueBall_pot(st, i) == ScoringPot(st, i, st.score + BLUE_POINTS)

\* BlackBall.pot without the floor; C4 must tell it from BlackBall.pot
BlackBall_pot_unfloored(st, i) ==
    ScoringPot(st, i, st.score - BLACK_PENALTY)

\* BlackBall.pot: game.score = max(game.score-5, 0)
BlackBall_pot(st, i) ==
    ScoringPot(st, i, IF st.score - BLACK_PENALTY > 0
                      THEN st.score - BLACK_PENALTY ELSE 0)

\* GoldBall.pot
GoldBall_pot(st, i) == ScoringPot(st, i, st.score + GOLD_POINTS)

\* Player.pot removing the cue ball like Ball.pot; C13 must tell it from
\* Player.pot
Player_pot_removed(st, i) ==
    LET e == [st.ents[i] EXCEPT !.pos = StartPos(st.ents[i])]
    IN SetEnt(st, i, remove(start_animation(e)))

\* Player.pot: back to start_pos, the radius animation starts
Player_pot(st, i) ==
    LET e == [st.ents[i] EXCEPT !.pos = StartPos(st.ents[i])]
    IN SetEnt(st, i, start_animation(e))

\* self.pot(game), dispatched on the ball's class
Pot(st, i) ==
    CASE st.ents[i].kind = "Player" -> Player_pot(st, i)
      [] st.ents[i].kind = "RedBall" -> RedBall_pot(st, i)
      [] st.ents[i].kind = "BlueBall" -> BlueBall_pot(st, i)
      [] st.ents[i].kind = "BlackBall" -> BlackBall_pot(st, i)
      [] st.ents[i].kind = "GoldBall" -> GoldBall_pot(st, i)

---------------------------------------------------------------------------
(* update: each operator yields the set of states the update can leave *)

\* the entities handle_collisions can report: every other entity of
\* game.entities (all classes are SOLID); the four walls act alike, so one
\* of them stands for all, and of the balls only the cue ball and those in
\* st.involved are run into
CollisionTargets(st, i) ==
    {j \in 1 .. Len(st.ents) :
        /\ j # i
        /\ st.ents[j].id \in {1, FirstWallId} \cup st.involved}

\* Entity.apply_force; Wall.apply_force discards the force
apply_force(e) == IF e.kind = "Wall" THEN e ELSE [e EXCEPT !.acc = TRUE]

\* Entity.update when handle_collisions reports nothing: the position
\* advances by vel*dt, the velocity takes up the acceleration and is snapped
\* to zero when small; v says whether it is non-zero afterwards and h
\* whether the new position is in range of a hole
Moved(st, i, v, h) ==
    LET e == st.ents[i]
    IN SetEnt(st, i, [e EXCEPT !.vel = v, !.acc = FALSE,
                               !.pos = IF ~e.vel THEN e.pos
                                       ELSE IF h THEN "hole" ELSE "table"])

\* Entity.update when handle_collisions reports entity c: the position is
\* rolled back and the force is shared with c, unless c has mass 0
Hit(st, i, c, v) ==
    LET e == st.ents[i]
        s1 == SetEnt(st, i, [e EXCEPT !.vel = v, !.acc = FALSE])
    IN SetEnt(s1, c, apply_force(s1.ents[c]))

\* Entity.update: nothing happens when dt is 0; an entity at rest with no
\* acceleration stays as it is; only a moving entity runs into another
Entity_update(st, i, dt) ==
    LET e == st.ents[i]
    IN IF dt = 0 THEN {st}
       ELSE {Moved(st, i, v, h) :
                v \in IF e.vel \/ e.acc THEN BOOLEAN ELSE {FALSE},
                h \in IF e.vel THEN BOOLEAN ELSE {FALSE}}
            \cup
            {Hit(st, i, c, v) :
                c \in IF e.vel THEN CollisionTargets(st, i) ELSE {},
                v \in BOOLEAN}

\* Ball.update_animation: while the animation runs the position is written
\* from the animation's centre; done says whether time has passed total_time
update_animation(e, done) ==
    IF e.anim = "off" THEN e
    ELSE IF done THEN [e EXCEPT !.pos = e.anim, !.anim = "off"]
    ELSE [e EXCEPT !.pos = "table"]

\* Ball.update: Entity.update, then pot when in range of a hole, then the
\* animation; the time of an animation only grows when dt > 0
Ball_update(st, i, dt) ==
    LET potted(s) == IF s.ents[i].pos = "hole" THEN Pot(s, i) ELSE s
        animated(s) ==
            {SetEnt(s, i, update_animation(s.ents[i], done)) :
                done \in IF s.ents[i].anim # "off" /\ dt > 0
                         THEN BOOLEAN ELSE {FALSE}}
    IN UNION {animated(potted(s)) : s \in Entity_update(st, i, dt)}

\* the red ball RedBall.update creates for the k-th layout position, with
\* its animation started
SpawnedRed(k) == start_animation(NewEntity("RedBall", 1 + k))

RECURSIVE Spawn(_, _)
\* the loop of RedBall.update over LAYOUT["red-balls"], from position k on
Spawn(st, k) ==
    IF k > NumRed THEN st ELSE Spawn(add_entity(st, SpawnedRed(k)), k + 1)

\* RedBall.update without the removal of the potted ball; C21 must tell it
\* from RedBall.update
RedBall_update_kept(st, i, dt) ==
    LET e == st.ents[i]
    IN IF e.potted
       THEN IF ~st.shot
            THEN {Spawn(st, 1)}
            ELSE {st}
       ELSE Ball_update(st, i, dt)

\* RedBall.update
RedBall_update(st, i, dt) ==
    LET e == st.ents[i]
    IN IF e.potted
       THEN IF ~st.shot
            THEN {SetEnt(Spawn(st, 1), i, remove(e))}
            ELSE {st}
       ELSE Ball_update(st, i, dt)

\* BlueBall.update, BlackBall.update and GoldBall.update: the three bodies
\* are the same code
Respawning_update(st, i, dt) ==
    LET e == st.ents[i]
        back == start_animation([e EXCEPT !.potted = FALSE,
                                          !.pos = StartPos(e)])
    IN IF e.potted
       THEN IF ~st.shot
            THEN Ball_update(SetEnt(st, i, back), i, dt)
            ELSE {st}
       ELSE Ball_update(st, i, dt)

\* Player.update starting a shot at every press; C9 must tell it from
\* Player.update
Player_update_eager(st, i, dt, m) ==
    LET s1 == IF m THEN start_shot(st) ELSE st
        pushed == IF m /\ s1.speed
                  THEN {[SetEnt(s1, i, [s1.ents[i] EXCEPT !.acc = TRUE])
                            EXCEPT !.speed = sp] :
                            sp \in IF dt > 0 THEN BOOLEAN ELSE {TRUE}}
                  ELSE IF ~m /\ ~s1.shot THEN {[s1 EXCEPT !.speed = TRUE]}
                  ELSE {s1}
    IN UNION {Ball_update(s, i, dt) : s \in pushed}

\* Player.update; m is pg.mouse.get_pressed()[0].  The acceleration is
\* overwritten while the speed budget lasts, and the budget shrinks by
\* 1000*dt: whether it is still positive afterwards depends on dt
Player_update(st, i, dt, m) ==
    LET s1 == IF m /\ ~st.shot THEN start_shot(st) ELSE st
        pushed == IF m /\ s1.speed
                  THEN {[SetEnt(s1, i, [s1.ents[i] EXCEPT !.acc = TRUE])
                            EXCEPT !.speed = sp] :
                            sp \in IF dt > 0 THEN BOOLEAN ELSE {TRUE}}
                  ELSE IF ~m /\ ~s1.shot THEN {[s1 EXCEPT !.speed = TRUE]}
                  ELSE {s1}
    IN UNION {Ball_update(s, i, dt) : s \in pushed}

\* entity.update(game, dt), dispatched on the entity's class; Wall.update
\* does nothing
Update(st, i, dt, m) ==
    CASE st.ents[i].kind = "Player" -> Player_update(st, i, dt, m)
      [] st.ents[i].kind = "RedBall" -> RedBall_update(st, i, dt)
      [] st.ents[i].kind \in RespawnKinds -> Respawning_update(st, i, dt)
      [] st.ents[i].kind = "Wall" -> {st}

\* the loop body keeping every entity, marked or not; C19 must tell it from
\* LoopBody
LoopBody_keep_all(st, i, dt, m) ==
    {[s EXCEPT !.moving = s.moving \/ (IsBall(s.ents[i]) /\ s.ents[i].vel),
               !.kept = Append(s.kept, i)] :
        s \in Update(st, i, dt, m)}

\* the body of the loop of Game.update for the entity at index i
LoopBody(st, i, dt, m) ==
    {[s EXCEPT !.moving = s.moving \/ (IsBall(s.ents[i]) /\ s.ents[i].vel),
               !.kept = IF s.ents[i].to_remove THEN s.kept
                        ELSE Append(s.kept, i)] :
        s \in Update(st, i, dt, m)}

RECURSIVE Loop(_, _, _, _)
\* the loop of Game.update from index i on; outcomes with more than
\* MaxActive balls in motion are left out
Loop(st, i, dt, m) ==
    IF i > Len(st.ents) THEN {st}
    ELSE UNION {Loop(s, i + 1, dt, m) :
                   s \in {x \in LoopBody(st, i, dt, m) :
                             Active(x.ents) <= MaxActive}}

\* end_shot without the decrement; C1 must tell it from end_shot
end_shot_free(st) ==
    LET s1 == [st EXCEPT !.shot = FALSE]
    IN IF s1.left <= 0 THEN [s1 EXCEPT !.playing = FALSE] ELSE s1

\* end_shot stopping the play one shot late (< for <=); C2 must tell it
\* from end_shot
end_shot_strict(st) ==
    LET s1 == [st EXCEPT !.shot = FALSE, !.left = st.left - 1]
    IN IF s1.left < 0 THEN [s1 EXCEPT !.playing = FALSE] ELSE s1

\* Game.end_shot
end_shot(st) ==
    LET s1 == [st EXCEPT !.shot = FALSE, !.left = st.left - 1]
    IN IF s1.left <= 0 THEN [s1 EXCEPT !.playing = FALSE] ELSE s1

\* the merge keeping the entities marked for removal; C22 must tell it
\* from Merge
Merge_all(s) == [s EXCEPT !.ents = s.ents \o s.add, !.add = <<>>]

\* the merge leaving the queue as it is; C18 must tell it from Merge
Merge_pending(s) ==
    [s EXCEPT !.ents = [k \in 1 .. Len(s.kept) |-> s.ents[s.kept[k]]]
                       \o s.add]

\* Game.update after the loop: self.entities = new_entities, extended by
\* the pending entities, and the queue is emptied
Merge(s) ==
    [s EXCEPT !.ents = [k \in 1 .. Len(s.kept) |-> s.ents[s.kept[k]]]
                       \o s.add,
              !.add = <<>>]

\* the closing test without the pointer; C8 must tell it from ShotOver
ShotOver_held(s, m) == s.shot /\ ~s.moving

\* the test that closes Game.update: a shot is on, no ball moves, the
\* pointer is up
ShotOver(s, m) == s.shot /\ ~s.moving /\ ~m

\* Game.update: the loop, the merge of the pending entities, the particles
\* (each may run out of lifetime when dt > 0), the end of the shot
Game_update(st, dt, m) ==
    LET merged(s) == Merge(s)
        aged(s) == {[s EXCEPT !.parts = n] :
                       n \in IF dt > 0 THEN 0 .. s.parts ELSE {s.parts}}
        ended(s) == IF ShotOver(s, m) THEN end_shot(s) ELSE s
    IN {ended(a) : a \in UNION {aged(merged(s)) : s \in Loop(st, 1, dt, m)}}

---------------------------------------------------------------------------
(* The program's steps *)

\* the state after Game.__init__: reset() has filled the table, then the
\* flags and the shot counter are cleared
Constructed ==
    /\ pc = "constructed"
    /\ playing = FALSE
    /\ quit = FALSE
    /\ shots_left = 0
    /\ shot = FALSE
    /\ score = 0
    /\ entities = InitialEntities
    /\ ents_to_add = <<>>
    /\ particles = 0
    /\ player_speed = TRUE
    /\ events = {}
    /\ mouse = FALSE
    /\ ticked = FALSE
    /\ ball_moving = FALSE
    /\ starts = 0
    /\ involved = {}
    /\ pots = 0

\* the balls a game may involve in collisions: those of at most MaxClasses
\* classes
Involvements ==
    {UNION C : C \in {D \in SUBSET {RedIds, BlueIds, {BlackId}, {GoldId}} :
                         Cardinality(D) <= MaxClasses}}

\* the table of a game in which only the gold ball was potted, and has
\* respawned at its start_pos
LateEntities ==
    [k \in 1 .. Len(InitialEntities) |->
        IF InitialEntities[k].kind = "GoldBall"
        THEN [InitialEntities[k] EXCEPT !.pos = StartPos(InitialEntities[k])]
        ELSE InitialEntities[k]]

\* a game near its end, between two shots: the gold ball was potted once,
\* the other shots moved the cue ball only
LateGame ==
    /\ pc = "play"
    /\ playing = TRUE
    /\ quit = FALSE
    /\ shots_left \in 1 .. ShotWindow
    /\ shot = FALSE
    /\ score = GOLD_POINTS
    /\ entities = LateEntities
    /\ ents_to_add = <<>>
    /\ particles = 0
    /\ player_speed = TRUE
    /\ events = {}
    /\ mouse = FALSE
    /\ ticked = TRUE
    /\ ball_moving = FALSE
    /\ starts = 0
    /\ involved \in Involvements
    /\ pots = 0

\* a game is followed from its construction through its first shots, and
\* from LateGame through its last shots, the game-over screen and the restart
Init == (Constructed \/ LateGame) /\ bench = <<>>

\* reset keeping the score; C3 must tell it from reset
reset_keep_score ==
    /\ entities' = InitialEntities
    /\ ents_to_add' = <<>>
    /\ particles' = 0
    /\ player_speed' = TRUE
    /\ shots_left' = START_SHOTS
    /\ score' = score
    /\ shot' = FALSE
    /\ involved' \in Involvements
    /\ pots' = 0

\* Game.reset
reset ==
    /\ entities' = InitialEntities
    /\ ents_to_add' = <<>>
    /\ particles' = 0
    /\ player_speed' = TRUE
    /\ shots_left' = START_SHOTS
    /\ score' = 0
    /\ shot' = FALSE
    /\ involved' \in Involvements
    /\ pots' = 0

\* the head of Game.run, called on the constructed game
Run ==
    /\ pc = "constructed"
    /\ pc' = "play"
    /\ playing' = TRUE
    /\ reset
    /\ UNCHANGED <<quit, events, mouse, ticked, ball_moving, starts, bench>>

\* the frames the model explores: the first and the last ShotWindow shots
\* of a game, and after the first ones the frames up to the one in which
\* the next shot starts
InWindow(left, inshot) ==
    \/ left > START_SHOTS - ShotWindow
    \/ left <= ShotWindow
    \/ left = START_SHOTS - ShotWindow /\ ~inshot

\* the events Game.handle_events tells apart: a QUIT event or the q key, or
\* anything else
PlayEvents == {{}, {"quit"}}

\* one iteration of the loop of Game.run: handle_events (evs: the events
\* read; m: the pointer state after them), update, draw, tick.  dt is 0
\* until the clock has ticked once
Frame ==
    /\ pc = "play"
    /\ playing /\ ~quit
    /\ InWindow(shots_left, shot)
    /\ \E m \in BOOLEAN :
          \E r \in Game_update(
                     [ents |-> entities, add |-> ents_to_add, kept |-> <<>>,
                      moving |-> FALSE, score |-> score, shot |-> shot,
                      left |-> shots_left, playing |-> playing,
                      speed |-> player_speed, parts |-> particles,
                      pots |-> pots, starts |-> 0, involved |-> involved],
                     IF ticked THEN 1 ELSE 0, m) :
             /\ r.pots <= MaxPots
             /\ pots' = r.pots
             /\ r.parts <= MaxParticles
             /\ \E evs \in PlayEvents :
                   /\ events' = evs
                   /\ quit' = (quit \/ "quit" \in evs)
             /\ mouse' = m
             /\ starts' = r.starts
             /\ entities' = r.ents
             /\ ents_to_add' = r.add
             /\ score' = r.score
             /\ shot' = r.shot
             /\ shots_left' = r.left
             /\ playing' = r.playing
             /\ player_speed' = r.speed
             /\ particles' = r.parts
             /\ ball_moving' = r.moving
    /\ ticked' = TRUE
    /\ UNCHANGED <<pc, involved, bench>>

\* the loop of Game.run is left: return on quit, else game_over() starts
\* with playing = True and an empty entity list
RunExit ==
    /\ pc = "play"
    /\ ~(playing /\ ~quit)
    /\ IF quit
       THEN /\ pc' = "exited"
            /\ UNCHANGED <<playing, entities>>
       ELSE /\ pc' = "game_over"
            /\ playing' = TRUE
            /\ entities' = <<>>
    /\ UNCHANGED <<quit, shots_left, shot, score, ents_to_add, particles,
                   player_speed, events, mouse, ticked, ball_moving, starts,
                   involved, pots, bench>>

\* the events one iteration of the loop of Game.game_over can read
GameOverEvents == SUBSET {"quit", "key", "click"}

\* one iteration of the loop of Game.game_over: a QUIT event or the q key
\* sets quit, any other key or a mouse button clears playing
GameOverFrame ==
    /\ pc = "game_over"
    /\ playing /\ ~quit
    /\ \E evs \in GameOverEvents, m \in BOOLEAN :
          /\ events' = evs
          /\ quit' = (quit \/ "quit" \in evs)
          /\ playing' = ~("key" \in evs \/ "click" \in evs)
          /\ mouse' = m
    /\ ticked' = TRUE
    /\ UNCHANGED <<pc, shots_left, shot, score, entities, ents_to_add,
                   particles, player_speed, ball_moving, starts, involved,
                   pots, bench>>

\* the loop of Game.game_over is left: run() again unless quit is set
GameOverExit ==
    /\ pc = "game_over"
    /\ ~(playing /\ ~quit)
    /\ IF quit
       THEN /\ pc' = "exited"
            /\ UNCHANGED <<playing, shots_left, shot, score, entities,
                           ents_to_add, particles, player_speed, involved,
                           pots>>
       ELSE /\ pc' = "play"
            /\ playing' = TRUE
            /\ reset
    /\ UNCHANGED <<quit, events, mouse, ticked, ball_moving, starts, bench>>

Next == Run \/ Frame \/ RunExit \/ GameOverFrame \/ GameOverExit

Spec == Init /\ [][Next]_vars
---------------------------------------------------------------------------
(* Vocabulary of the properties *)

\* a step that is one iteration of the loop of Game.run
FrameStep == pc = "play" /\ pc' = "play"

\* a step that runs Game.reset: the head of run, from the constructed game or
\* from the game-over screen
ResetStep == pc \in {"constructed", "game_over"} /\ pc' = "play"

\* the table Game.reset leaves
FreshTable ==
    /\ shots_left = START_SHOTS
    /\ score = 0
    /\ shot = FALSE
    /\ particles = 0
    /\ ents_to_add = <<>>
    /\ entities = InitialEntities

\* the balls of the given kinds in the list ents, by id
IdsOf(ents, kinds) ==
    {ents[j].id : j \in {k \in 1 .. Len(ents) : ents[k].kind \in kinds}}

\* the scoring balls in the list ents that are not potted, by id
Unpotted(ents) ==
    {ents[j].id : j \in {k \in 1 .. Len(ents) :
                            /\ ents[k].kind \in BallKinds \ {"Player"}
                            /\ ~ents[k].potted}}

\* the balls in the list ents that are potted, by id
PottedIn(ents) ==
    {ents[j].id : j \in {k \in 1 .. Len(ents) : ents[k].potted}}

\* the balls a pass potted: not potted in the list before it, potted in or
\* gone from the list after it
NewlyPotted(before, after) == Unpotted(before) \ Unpotted(after)

\* the score a single pot of the ball id leaves, from the score sc
AfterPot(id, sc) ==
    IF id \in RedIds THEN sc + RED_POINTS
    ELSE IF id \in BlueIds THEN sc + BLUE_POINTS
    ELSE IF id = GoldId THEN sc + GOLD_POINTS
    ELSE IF sc >= BLACK_PENALTY THEN sc - BLACK_PENALTY ELSE 0

RespawnIds == BlueIds \cup {BlackId, GoldId}

---------------------------------------------------------------------------
(* Properties *)

\* C1: every end of a shot (shot goes from TRUE to FALSE) lowers shots_left
\* by exactly 1, a pass lowers it by at most 1, and apart from a reset
\* nothing else changes shots_left.
C1_ShotCostsOne ==
    [][/\ (shot /\ ~shot') => shots_left' = shots_left - 1
       /\ (shots_left' # shots_left) =>
             \/ shot /\ ~shot' /\ shots_left' = shots_left - 1
             \/ ResetStep /\ shots_left' = START_SHOTS]_vars

\* a shot during which a ball was potted has ended and cost one shot
C1_ShotPaid ==
    /\ pc = "play"
    /\ ~shot
    /\ shots_left = START_SHOTS - 1
    /\ pots > 0

\* C2, as the code has it: shots_left is never negative; while the loop of
\* run keeps iterating it lies in 1 .. 30; playing becomes False in a pass
\* exactly when that pass ends a shot with shots_left reaching 0; the loop of
\* run is then left for the game-over screen unless quit is set, in which
\* case run returns; and the game-over screen is entered in no other way.
C2_ShotsRunOut ==
    /\ [](shots_left >= 0)
    /\ []((pc = "play" /\ playing /\ ~quit) => shots_left \in 1 .. START_SHOTS)
    /\ [][FrameStep =>
            ((playing /\ ~playing') <=> (shot /\ ~shot' /\ shots_left' = 0))]_vars
    /\ [][(pc = "play" /\ pc' # "play") =>
            IF quit THEN pc' = "exited"
            ELSE pc' = "game_over" /\ shots_left = 0 /\ ~playing]_vars

\* the last shot has ended and the game-over screen is shown
C2_GameOverShown ==
    /\ pc = "game_over"
    /\ shots_left = 0
    /\ playing

\* C2 as stated: whenever shots_left has reached 0 at the end of a shot, the
\* game-over screen is entered.
C2_AsStated ==
    /\ [](shots_left >= 0)
    /\ []((pc = "play" /\ playing /\ ~quit) => shots_left \in 1 .. START_SHOTS)
    /\ [][FrameStep =>
            ((playing /\ ~playing') <=> (shot /\ ~shot' /\ shots_left' = 0))]_vars
    /\ [][(pc = "play" /\ ~playing /\ shots_left = 0) =>
            pc' = "game_over"]_vars

\* C3: on the game-over screen a key press or a mouse click, without a quit
\* signal, clears playing, and the step that follows restarts play on the
\* table reset leaves (30 shots, score 0, no shot, no particles, nothing
\* pending, the initial entities); a quit signal makes the step that follows
\* end the process with nothing reset, and nothing runs after the end.
C3_RestartOrQuit ==
    /\ []((pc = "game_over" /\ "quit" \in events) => quit)
    /\ []((pc = "game_over" /\ ~quit /\ events \cap {"key", "click"} # {})
             => ~playing)
    /\ [][(pc = "game_over" /\ ~quit /\ ~playing) =>
            (pc' = "play" /\ playing' /\ ~quit' /\ FreshTable')]_vars
    /\ [][(pc = "game_over" /\ quit) =>
            (pc' = "exited" /\ UNCHANGED <<shots_left, score, entities>>)]_vars
    /\ [][pc # "exited"]_vars

\* play has restarted from the game-over screen, on a fresh table
C3_Restarted ==
    /\ pc = "play"
    /\ events \cap {"key", "click"} # {}
    /\ FreshTable

\* C4: the score is never negative; it changes only in a pass that pots a
\* ball, or to 0 in a reset; a pass lowers it only if it pots the black
\* ball; and a pass that pots the black ball alone leaves the score minus 5,
\* or 0 if that is negative.
C4_ScoreFloor ==
    /\ [](score >= 0)
    /\ [][(score' # score) =>
            \/ ResetStep /\ score' = 0
            \/ FrameStep /\ NewlyPotted(entities, entities') # {}]_vars
    /\ [][(FrameStep /\ score' < score) =>
            BlackId \in NewlyPotted(entities, entities')]_vars
    /\ [][(FrameStep /\ NewlyPotted(entities, entities') = {BlackId}) =>
            score' = (IF score - BLACK_PENALTY < 0 THEN 0
                      ELSE score - BLACK_PENALTY)]_vars

\* the black ball was potted at score 7 and took 5 points
C4_Penalised ==
    /\ BlackId \in PottedIn(entities)
    /\ score = GOLD_POINTS - BLACK_PENALTY

\* C5: a pass that pots one blue, black or gold ball and nothing else changes
\* the score by that ball's effect (+4, -5 floored at 0, +7); a pass that
\* pots nothing leaves the score alone, however many potted balls lie in
\* range of a hole; and a potted ball stays potted through every pass of a
\* shot in progress, so it scores at most once in that shot.
C5_ScoresOnce ==
    /\ [][FrameStep =>
            \A b \in RespawnIds :
               NewlyPotted(entities, entities') = {b}
                  => score' = AfterPot(b, score)]_vars
    /\ [][(FrameStep /\ NewlyPotted(entities, entities') = {}) =>
            score' = score]_vars
    /\ [][(FrameStep /\ shot) =>
            (PottedIn(entities) \cap RespawnIds) \subseteq PottedIn(entities')]_vars

\* a blue, black or gold ball lies potted while the shot goes on
C5_PottedInShot ==
    /\ pc = "play"
    /\ shot
    /\ ball_moving
    /\ PottedIn(entities) \cap RespawnIds # {}

\* C6 as stated: a pass after which no unpotted red ball is left, while one
\* was left before it, adds at least the 20 points of the clear to the score
\* and leaves the red ball that cleared the table in the list, potted.
C6_ClearAwarded ==
    [][(/\ FrameStep
        /\ Unpotted(entities) \cap RedIds # {}
        /\ Unpotted(entities') \cap RedIds = {}) =>
            /\ score' >= score + CLEAR_POINTS
            /\ PottedIn(entities') \cap RedIds # {}]_vars

\* C7: a red ball potted while another red ball is in the list is gone from
\* the list when the pass is over; a pass that pots such red balls and
\* nothing else adds one point for each; no entity marked for removal
\* outlives its pass; and a red ball comes into the list only as a new ball
\* whose animation is about to run, never as the potted one.
C7_RedRemoved ==
    /\ [](\A j \in 1 .. Len(entities) : ~entities[j].to_remove)
    /\ [][FrameStep =>
            \A r \in NewlyPotted(entities, entities') \cap RedIds :
               IdsOf(entities, {"RedBall"}) # {r}
                  => r \notin IdsOf(entities', {"RedBall"})]_vars
    /\ [][(/\ FrameStep
           /\ NewlyPotted(entities, entities') # {}
           /\ NewlyPotted(entities, entities') \subseteq RedIds
           /\ NewlyPotted(entities, entities')
                 \cap IdsOf(entities', {"RedBall"}) = {}) =>
            score' = score + RED_POINTS
                             * Cardinality(NewlyPotted(entities, entities'))]_vars
    /\ [][FrameStep =>
            \A j \in 1 .. Len(entities') :
               (/\ entities'[j].kind = "RedBall"
                /\ entities'[j].id \notin IdsOf(entities, {"RedBall"}))
                  => ~entities'[j].potted /\ entities'[j].anim # "off"]_vars

\* one red ball was potted for a point and is gone, the others are on the
\* table
C7_OneRedGone ==
    /\ pc = "play"
    /\ pots = 1
    /\ Cardinality(IdsOf(entities, {"RedBall"})) = NumRed - 1
    /\ Unpotted(entities) \cap RedIds = IdsOf(entities, {"RedBall"})

\* C8: in a pass of a shot in progress the shot ends if and only if the
\* pointer is up and no ball had a non-zero velocity after its update; when
\* it ends, no ball left in the list has a non-zero velocity.
C8_ShotEnds ==
    [][(FrameStep /\ shot) =>
          /\ (~shot') <=> (~mouse' /\ ~ball_moving')
          /\ (~shot') =>
                \A j \in 1 .. Len(entities') :
                   IsBall(entities'[j]) => ~entities'[j].vel]_vars

\* the first shot has ended, in a pass with the pointer up and every ball at
\* rest, one of them with a force of that pass still to take up
C8_Ended ==
    /\ pc = "play"
    /\ ~shot
    /\ shots_left = START_SHOTS - 1
    /\ ~mouse
    /\ ~ball_moving
    /\ \E j \in 1 .. Len(entities) : entities[j].acc

\* C9: a pass starts a shot if and only if the pointer is down and no shot
\* was in progress; it calls start_shot once then and never otherwise, so
\* not while a shot is in progress.
C9_ShotStarts ==
    [][FrameStep =>
          /\ (~shot /\ shot') <=> (~shot /\ mouse')
          /\ starts' = (IF ~shot /\ mouse' THEN 1 ELSE 0)]_vars

\* the pointer is down in a pass of a shot that an earlier pass started
C9_HeldInShot ==
    /\ pc = "play"
    /\ shot
    /\ mouse
    /\ starts = 0

\* C10 as stated: in the pass that starts a shot, no blue, black or gold ball
\* that was potted before the pass is still potted after it.
C10_RespawnedBeforeShot ==
    [][(FrameStep /\ ~shot /\ shot') =>
          PottedIn(entities) \cap PottedIn(entities') \cap RespawnIds = {}]_vars

\* the balls whose radius animation is running, by id
Animating(ents) ==
    {ents[j].id : j \in {k \in 1 .. Len(ents) :
                            IsBall(ents[k]) /\ ents[k].anim # "off"}}

\* C11 as stated: a pass never pots a ball whose animation, started in an
\* earlier pass, is still running: such a ball neither becomes potted nor
\* scores.
C11_NoPotWhileAnimating ==
    [][FrameStep =>
          Animating(entities) \cap NewlyPotted(entities, entities') = {}]_vars

\* C12 as stated: when the pointer, released during a shot, is pressed again
\* in a pass of that shot, a cue ball that was at rest with no force on it
\* still has zero velocity after the pass.
C12_NoInputWhileSettling ==
    [][(/\ FrameStep
        /\ shot /\ ~mouse /\ mouse'
        /\ ~entities[1].vel /\ ~entities[1].acc) =>
            ~entities'[1].vel]_vars

\* the state a pass starts from, as the record the update operators work on
PassState ==
    [ents |-> entities, add |-> ents_to_add, kept |-> <<>>, moving |-> FALSE,
     score |-> score, shot |-> shot, left |-> shots_left,
     playing |-> playing, speed |-> player_speed, parts |-> particles,
     pots |-> pots, starts |-> 0, involved |-> involved]

\* the pass potted the cue ball: its animation was started in the pass, or
\* it is back at its start position
PlayerPotted ==
    \/ entities[1].anim = "off" /\ entities'[1].anim # "off"
    \/ entities[1].pos # "home" /\ entities'[1].pos = "home"

\* C13: during play the first entity of the list is the cue ball, the only
\* Player, never potted and never marked for removal; Player.pot applied to
\* any state of play leaves score, shots_left and the particles alone, does
\* not mark the cue ball and puts it at its start position; and a pass that
\* potted the cue ball and no other ball leaves the score unchanged, changes
\* shots_left only by ending the shot, and leaves the cue ball at its start
\* position or animating towards it.
C13_PlayerStays ==
    /\ [](pc = "play" =>
            /\ Len(entities) >= 1
            /\ entities[1].kind = "Player"
            /\ ~entities[1].potted /\ ~entities[1].to_remove
            /\ \A j \in 2 .. Len(entities) : entities[j].kind # "Player")
    /\ [](pc = "play" =>
            LET r == Player_pot(PassState, 1)
            IN /\ r.score = score /\ r.left = shots_left
               /\ r.parts = particles /\ r.shot = shot
               /\ ~r.ents[1].to_remove
               /\ r.ents[1].pos = StartPos(entities[1]))
    /\ [][(FrameStep /\ PlayerPotted) =>
            /\ NewlyPotted(entities, entities') = {} => score' = score
            /\ shots_left' # shots_left => (shot /\ ~shot')
            /\ entities'[1].kind = "Player"
            /\ \/ entities'[1].anim = StartPos(entities[1])
               \/ entities'[1].pos = StartPos(entities[1])]_vars

\* the cue ball was potted and its animation runs at its start position
C13_PlayerAnimating ==
    /\ pc = "play"
    /\ entities[1].kind = "Player"
    /\ entities[1].anim = "home"

\* C17 as stated: the pass made with dt = 0 (the clock has not ticked yet)
\* leaves every entity as it was (position, velocity, acceleration,
\* animation, potted state) and changes neither the score nor the shot state.
C17_ZeroDtSkipped ==
    [][(FrameStep /\ ~ticked) =>
          /\ entities' = entities
          /\ score' = score
          /\ shot' = shot]_vars

\* the states the loop of Game.update can end in, from the current state
\* and with the pointer state m, before the lists are merged
PassResults(m) == Loop(PassState, 1, IF ticked THEN 1 ELSE 0, m)

\* C18: after every pass the queue ents_to_add is empty; whatever a pass
\* does, at the end of its loop the list iterated holds the same entities in
\* the same places as at its start, and every entity queued meanwhile is
\* outside it and exactly as add_entity received it (never updated, never
\* struck); and after a pass that finds a potted red ball and no shot in
\* progress that ball is gone and the new red balls are the last entities of
\* the list, still as they were queued.
C18_QueuedThenMerged ==
    /\ [](ents_to_add = <<>>)
    /\ [](pc = "play" =>
            \A m \in BOOLEAN : \A r \in PassResults(m) :
               /\ Len(r.ents) = Len(entities)
               /\ \A j \in 1 .. Len(entities) :
                     /\ r.ents[j].id = entities[j].id
                     /\ r.ents[j].kind = entities[j].kind
               /\ Len(r.add) \in {0, NumRed}
               /\ \A k \in 1 .. Len(r.add) : r.add[k] = SpawnedRed(k))
    /\ [][(/\ FrameStep
           /\ PottedIn(entities) \cap RedIds # {}
           /\ ~shot /\ ~mouse') =>
            /\ PottedIn(entities') \cap RedIds = {}
            /\ Len(entities') >= NumRed
            /\ \A k \in 1 .. NumRed :
                  entities'[Len(entities') - NumRed + k] = SpawnedRed(k)]_vars

\* the red balls queued by a respawn are in the list, their animations
\* running
C18_RedsBack ==
    /\ pc = "play"
    /\ IdsOf(entities, {"RedBall"}) = RedIds
    /\ RedIds \subseteq Animating(entities)

\* C19: whatever a pass does, an entity it marks for removal is still at its
\* place in the list at the end of the loop, and new_entities holds exactly
\* the places of the unmarked entities, in order; after every pass the list
\* holds no entity marked for removal.
C19_RemovalDeferred ==
    /\ [](\A j \in 1 .. Len(entities) : ~entities[j].to_remove)
    /\ [](pc = "play" =>
            \A m \in BOOLEAN : \A r \in PassResults(m) :
               /\ Len(r.ents) = Len(entities)
               /\ \A j \in 1 .. Len(r.ents) :
                     r.ents[j].to_remove => r.ents[j].id = entities[j].id
               /\ \A k \in 1 .. Len(r.kept) : ~r.ents[r.kept[k]].to_remove
               /\ \A k \in 1 .. Len(r.kept) - 1 : r.kept[k] < r.kept[k + 1]
               /\ Len(r.kept)
                    = Cardinality({j \in 1 .. Len(r.ents) :
                                      ~r.ents[j].to_remove}))

\* every red ball was potted for a point, marked and dropped from the list
C19_RedsDropped ==
    /\ pc = "play"
    /\ IdsOf(entities, {"RedBall"}) = {}
    /\ pots = NumRed

---------------------------------------------------------------------------
(* The physics bench *)

(***************************************************************************)
(* Entity.update with its arithmetic, for two bodies on one horizontal      *)
(* line: a, a ball, and b, a ball or a wall, to the right of a.  Lengths    *)
(* are counted in hundredths of a pixel, velocities in hundredths of a      *)
(* pixel per second, dt in milliseconds; the second coordinate of every     *)
(* vector is 0 and is left out.  A mass is counted in sixteenths, which     *)
(* makes the masses of the three sizes of ball 9, 16 and 36.  A division    *)
(* rounds toward zero to the unit where the program's floating point        *)
(* rounds to the nearest double.  The bench has no hole and no animation:   *)
(* of Ball.update it keeps the call of Entity.update.                       *)
(***************************************************************************)

\* hundredths of a pixel in a pixel
PX == 100
\* milliseconds in a second
MS == 1000

FRICTION == 400
\* COLLISION_ELASTICITY = 0.9, in tenths
COLLISION_ELASTICITY == 9
\* the squared speed at or below which update stops an entity
STOP_SQUARE == 50
\* Ball.R
R == 15
\* sixteenths of the mass of an ordinary ball in that mass
UNIT_MASS == 16
\* the thickness of the walls Game.generate_walls makes, and the width of
\* the zones of a wall's normals
THICKNESS == 10
ZONE == 5

\* operations on the bench after its construction
MaxBenchSteps == 2

Sign(n) == IF n > 0 THEN 1 ELSE IF n < 0 THEN -1 ELSE 0

\* n / d for d > 0, rounded toward zero, alike for both signs of n
Quot(n, d) == IF n >= 0 THEN n \div d ELSE -((-n) \div d)

\* utils.normalize_vector: the zero vector is returned as it is
normalize_vector(v) == Sign(v)

\* utils.set_mag: normalize(v) * m
set_mag(v, m) == normalize_vector(v) * m

dot_product(u, v) == u * v

square_dist(p, q) == (p - q) * (p - q)

\* dot_product(vel, vel) <= 50; the first conjunct keeps the product of a
\* large velocity out of the evaluation
slow(vel) ==
    /\ -10 * PX <= vel /\ vel <= 10 * PX
    /\ dot_product(vel, vel) <= STOP_SQUARE * PX * PX

\* the balls by size: "Ball" stands for Player, RedBall and BlueBall
BenchBallKinds == {"Ball", "BlackBall", "GoldBall"}

\* type(self).R: Ball.R, BlackBall.R = Ball.R*0.75, GoldBall.R = Ball.R*1.5
Radius(kind) ==
    CASE kind = "BlackBall" -> (R * PX * 3) \div 4
      [] kind = "GoldBall" -> (R * PX * 3) \div 2
      [] OTHER -> R * PX

\* self.mass: 1 for a Ball, (type(self).R / Ball.R) ** 2 for the black and
\* the gold ball
Mass(kind) ==
    LET quarters == (4 * Radius(kind)) \div (R * PX)
    IN  quarters * quarters

\* a ball of the given class with its top-left corner at x, moving at v
BenchBall(kind, x, v) ==
    [kind |-> kind, mass |-> Mass(kind), x |-> x, w |-> 2 * Radius(kind),
     radius |-> Radius(kind), v |-> v, acc |-> 0, normals |-> <<>>]

\* pg.Rect on the line: its left edge and its width, in whole pixels
Rect(left, width) == [left |-> left, width |-> width]

\* Wall(pos, size): the zones of its left and of its right face (those of
\* its top and bottom lie off the line of the bench)
BenchWall(x) ==
    [kind |-> "Wall", mass |-> 0, x |-> x, w |-> THICKNESS * PX, radius |-> 0,
     v |-> 0, acc |-> 0,
     normals |-> <<[zone |-> Rect(x \div PX, ZONE), normal |-> -1],
                   [zone |-> Rect(x \div PX + THICKNESS - ZONE, ZONE),
                    normal |-> 1]>>]

\* pg.Rect(*self.pos, *self.size): a Rect holds integers, the position and
\* the size are truncated
get_rect(e) == Rect(e.x \div PX, e.w \div PX)

center(r) == r.left + r.width \div 2

colliderect(r, q) == r.left < q.left + q.width /\ q.left < r.left + r.width

clip(r, q) ==
    LET lo == IF r.left > q.left THEN r.left ELSE q.left
        rr == r.left + r.width
        qr == q.left + q.width
        hi == IF rr < qr THEN rr ELSE qr
    IN  IF colliderect(r, q) THEN Rect(lo, hi - lo) ELSE Rect(r.left, 0)

\* the normal of the first zone of ns, from its k-th on, that c touches;
\* centres: the normalised difference of the centres, taken if there is none
RECURSIVE zone_normal(_, _, _, _)
zone_normal(ns, k, c, centres) ==
    IF k > Len(ns) THEN centres
    ELSE IF colliderect(c, ns[k].zone) THEN ns[k].normal
    ELSE zone_normal(ns, k + 1, c, centres)

\* Entity.handle_collisions with one other entity on the table
handle_collisions(self, entity) ==
    LET did_collide ==
            IF self.radius # 0 /\ entity.radius # 0
            THEN square_dist(center(get_rect(self)), center(get_rect(entity)))
                        * PX * PX
                    <= (self.radius + entity.radius) * (self.radius + entity.radius)
            ELSE colliderect(get_rect(entity), get_rect(self))
    IN  [collided |-> did_collide,
         normal |->
            IF did_collide
            THEN zone_normal(entity.normals, 1,
                             clip(get_rect(entity), get_rect(self)),
                             normalize_vector(center(get_rect(self))
                                              - center(get_rect(entity))))
            ELSE 0]

\* scale_vector(force, num / den)
scale_vector(force, num, den) ==
    IF den > 0 THEN Quot(force * num, den) ELSE (force * num) \div den

\* Entity.apply_force: scale_vector(force, 1 / self.mass) is added to acc
Entity_apply_force(e, force) ==
    [e EXCEPT !.acc = e.acc + scale_vector(force, UNIT_MASS, e.mass)]

\* Wall.apply_force, which moves the wall by the force; C14 must tell it
\* from Wall_apply_force
Wall_apply_force_moved(e, force) == [e EXCEPT !.acc = e.acc + force]

\* Wall.apply_force
Wall_apply_force(e, force) == e

\* e.apply_force(force), by the class of e
apply_force_to(e, force) ==
    IF e.kind = "Wall" THEN Wall_apply_force(e, force)
    ELSE Entity_apply_force(e, force)

\* Entity.update of self with entity the one other entity: the two entities
\* after it, whether a collision was found, the force computed from it and
\* the forces handed to apply_force, in order, each as the vector and the
\* fraction num / den it is scaled by
Entity_update_exact(self, entity, dt) ==
    IF dt = 0
    THEN [self |-> self, entity |-> entity, hit |-> FALSE, force |-> 0,
          log |-> <<>>]
    ELSE
    LET rub == set_mag(self.v, -((FRICTION * PX * self.mass) \div UNIT_MASS))
        s1 == apply_force_to(self, rub)
        moved == [s1 EXCEPT !.x = self.x + Quot(self.v * dt, MS)]
        c == handle_collisions(moved, entity)
        s2 == IF c.collided THEN [moved EXCEPT !.x = self.x] ELSE moved
        dot == dot_product(c.normal, self.v - entity.v)
        force == Quot(c.normal * dot * 2 * COLLISION_ELASTICITY * MS, 10 * dt)
        total_mass == self.mass + entity.mass
        own == IF entity.mass = 0
               THEN [force |-> force, num |-> -self.mass, den |-> UNIT_MASS]
               ELSE [force |-> force, num |-> -self.mass, den |-> total_mass]
        other == [force |-> force, num |-> entity.mass, den |-> total_mass]
        scaled(f) == scale_vector(f.force, f.num, f.den)
        s3 == IF c.collided THEN apply_force_to(s2, scaled(own)) ELSE s2
        e3 == IF c.collided /\ entity.mass # 0
              THEN apply_force_to(entity, scaled(other)) ELSE entity
        vel == s3.v + Quot(s3.acc * dt, MS)
        s4 == [s3 EXCEPT
                 !.v = IF slow(vel) THEN 0 ELSE vel,
                 !.acc = 0]
    IN  [self |-> s4, entity |-> e3, hit |-> c.collided,
         force |-> IF c.collided THEN force ELSE 0,
         log |-> <<[to |-> "self", force |-> rub, num |-> 1, den |-> 1]>>
                 \o (IF c.collided
                     THEN <<[to |-> "self"] @@ own>> ELSE <<>>)
                 \o (IF c.collided /\ entity.mass # 0
                     THEN <<[to |-> "entity"] @@ other>> ELSE <<>>)]

\* e.update(game, dt), by the class of e: Wall.update does nothing
update_of(self, entity, dt) ==
    IF self.kind = "Wall"
    THEN [self |-> self, entity |-> entity, hit |-> FALSE, force |-> 0,
          log |-> <<>>]
    ELSE Entity_update_exact(self, entity, dt)

(* The inputs of the bench *)

\* the top-left corner of a
BenchStarts == {100 * PX, 100 * PX + 50}
\* velocities of a: at rest, three below the stopping speed, one well above
BenchVels == {0, 1 * PX, 5 * PX, 7 * PX, 100 * PX}
\* velocities of b when it is a ball
BenchVelsB == {0, -100 * PX}
\* the left edge of b, counted from the right edge of a
BenchGaps == {-50, 0, 1, 99, PX, 10 * PX}
\* the time since the last frame: none, as on the first frame, or 10, 20
\* or 50 ms
BenchDts == {0, 10, 20, 50}
\* forces applied from outside an update
BenchForces == {400 * PX, -400 * PX}

\* the bodies b can be, with their left edge at x
BenchOthers(x) ==
    {BenchBall(kb, x, vb) : kb \in BenchBallKinds, vb \in BenchVelsB}
    \cup {BenchWall(x)}

BenchInputs ==
    UNION {{[a |-> BenchBall(ka, xa, va), b |-> bb, op |-> "none",
             who |-> "none", dt |-> 0, hit |-> FALSE, force |-> 0,
             log |-> <<>>, n |-> 0] :
               va \in BenchVels,
               bb \in BenchOthers(xa + 2 * Radius(ka) + g)} :
           ka \in BenchBallKinds, xa \in BenchStarts, g \in BenchGaps}

\* the game stands constructed beside the bench
PhysInit == Constructed /\ bench \in BenchInputs

game_vars == <<pc, playing, quit, shots_left, shot, score, entities,
               ents_to_add, particles, player_speed, events, mouse, ticked,
               ball_moving, starts, involved, pots>>

\* a.update(game, dt) or b.update(game, dt) with game.entities = [a, b]
BenchUpdate ==
    /\ bench.n < MaxBenchSteps
    /\ \E dt \in BenchDts :
          \/ LET r == update_of(bench.a, bench.b, dt)
             IN  bench' = [a |-> r.self, b |-> r.entity, op |-> "update",
                           who |-> "a", dt |-> dt, hit |-> r.hit,
                           force |-> r.force, log |-> r.log,
                           n |-> bench.n + 1]
          \/ LET r == update_of(bench.b, bench.a, dt)
             IN  bench' = [a |-> r.entity, b |-> r.self, op |-> "update",
                           who |-> "b", dt |-> dt, hit |-> r.hit,
                           force |-> r.force, log |-> r.log,
                           n |-> bench.n + 1]
    /\ UNCHANGED game_vars

\* a.apply_force(f) or b.apply_force(f)
BenchForce ==
    /\ bench.n < MaxBenchSteps
    /\ \E f \in BenchForces :
          \/ bench' = [bench EXCEPT !.a = apply_force_to(bench.a, f),
                                    !.op = "force", !.who = "a", !.dt = 0,
                                    !.hit = FALSE, !.force = 0, !.log = <<>>,
                                    !.n = bench.n + 1]
          \/ bench' = [bench EXCEPT !.b = apply_force_to(bench.b, f),
                                    !.op = "force", !.who = "b", !.dt = 0,
                                    !.hit = FALSE, !.force = 0, !.log = <<>>,
                                    !.n = bench.n + 1]
    /\ UNCHANGED game_vars

PhysNext == BenchUpdate \/ BenchForce

PhysSpec == PhysInit /\ [][PhysNext]_vars

---------------------------------------------------------------------------
(* Properties of the physics bench (specification PhysSpec) *)

\* C14: an entity of mass 0, a wall, keeps its position, its velocity and
\* its acceleration through every force applied to it and every update, its
\* own or that of a ball that runs into it; no step divides by its mass
C14_WallUnmoved ==
    [][bench.b.kind = "Wall" => bench'.b = bench.b]_vars

\* a ball has run into the wall and was thrown back
C14_WallStruck ==
    /\ bench.op = "update" /\ bench.who = "a" /\ bench.hit
    /\ bench.b.kind = "Wall"
    /\ bench.a.v < 0

\* the body the bench calls w
Body(bn, w) == IF w = "a" THEN bn.a ELSE bn.b

\* the step is w.update(game, dt) with dt > 0
Updated(w) == bench'.op = "update" /\ bench'.who = w /\ bench'.dt > 0

\* the velocity has a squared magnitude below 50
BelowStop(vel) ==
    /\ -10 * PX <= vel /\ vel <= 10 * PX
    /\ vel * vel < STOP_SQUARE * PX * PX

TrueTouch(p, q) ==
    square_dist(p.x + p.radius, q.x + q.radius)
        <= (p.radius + q.radius) * (p.radius + q.radius)

\* C16: between two circular entities the update of one (at rest, so that
\* it is tested where it stands) finds a collision exactly when the squared
\* distance between their true centres is at most (r1 + r2)^2: two balls
\* of radius 15 collide with their centres 30 apart, not 30.01 apart
C16_TouchExact ==
    [][\A w \in {"a", "b"} :
          (/\ Updated(w)
           /\ bench.a.radius # 0 /\ bench.b.radius # 0
           /\ Body(bench, w).v = 0)
          => (bench'.hit <=> TrueTouch(bench.a, bench.b))]_vars

\* the other body of the bench
Opposite(w) == IF w = "a" THEN "b" ELSE "a"

\* C20: when the update of an entity finds a collision with an entity of
\* non-zero mass, the force of the collision is applied to both in opposite
\* directions, to the updated entity scaled by m_other / (m_self + m_other)
\* and to the struck entity scaled by m_self / (m_self + m_other)
C20_SplitByOtherMass ==
    [][\A w \in {"a", "b"} :
          LET self == Body(bench, w)
              entity == Body(bench, Opposite(w))
              total_mass == self.mass + entity.mass
              log == bench'.log
          IN  (Updated(w) /\ bench'.hit /\ self.mass # 0 /\ entity.mass # 0)
              => /\ Len(log) = 3
                 /\ log[2].to = "self" /\ log[2].force = bench'.force
                 /\ log[2].num * total_mass = -(entity.mass * log[2].den)
                 /\ log[3].to = "entity" /\ log[3].force = bench'.force
                 /\ log[3].num * total_mass = self.mass * log[3].den]_vars

---------------------------------------------------------------------------
(* Properties of the game (specification Spec), continued *)

\* the places of the red balls in the list ents
Reds(ents) == {j \in 1 .. Len(ents) : ents[j].kind = "RedBall"}

Count(ents, kinds) ==
    Cardinality({j \in 1 .. Len(ents) : ents[j].kind \in kinds})

\* what a state of play holds by class: one Player, which is game.player
\* at the head of the list, every blue ball of the layout, one black and
\* one gold ball, four walls, and at most the red balls of the layout
Census ==
    /\ Count(entities, {"Player"}) = 1
    /\ entities[1].kind = "Player"
    /\ Count(entities, {"BlueBall"}) = NumBlue
    /\ Count(entities, {"BlackBall"}) = 1
    /\ Count(entities, {"GoldBall"}) = 1
    /\ Count(entities, {"Wall"}) = 4
    /\ Count(entities, {"RedBall"}) <= NumRed
    /\ Count(entities, BallKinds \cup {"Wall"}) = Len(entities)

\* C22 with the number of entities reset creates: in every state of play
\* the list holds the entities of Census, and the list and the pending
\* queue together hold at most the entities reset created, which are one
\* Player, the red and the blue balls of the layout, the black and the gold
\* ball and four walls (seventeen for the layout's five and five)
C22_CensusKept ==
    [](pc = "play" =>
          /\ Census
          /\ Len(entities) + Len(ents_to_add) <= Len(InitialEntities)
          /\ Len(InitialEntities) = NumRed + NumBlue + 7)

\* C22 as stated: the same with the bound of sixteen, which is the red and
\* the blue balls of the layout and six more
C22_AsStated ==
    [](pc = "play" =>
          /\ Census
          /\ Len(entities) + Len(ents_to_add) <= NumRed + NumBlue + 6)

\* a pass has removed a red ball for good: the others are still on the table
C22_OneRedFewer ==
    /\ pc = "play"
    /\ ticked
    /\ pots >= 1
    /\ Count(entities, {"RedBall"}) = NumRed - 1
    /\ PottedIn(entities) = {}

\* every ball in the list ents has zero velocity
AllAtRest(ents) == \A j \in 1 .. Len(ents) : IsBall(ents[j]) => ~ents[j].vel

\* C23 as stated: in every state of play between passes in which no shot is
\* in progress every ball has zero velocity, and after a pass that began
\* with no shot in progress and started none every ball has zero velocity.
C23_RestBetweenShots ==
    /\ []((pc = "play" /\ ~shot) => AllAtRest(entities))
    /\ [][(FrameStep /\ ~shot /\ starts' = 0) => AllAtRest(entities')]_vars

\* C24 as stated: a ball that lies potted, waiting for its respawn, is never
\* given a force (its acceleration and its velocity stay zero), and a blue,
\* black or gold ball that a pass has respawned has zero velocity and zero
\* acceleration after that pass.
C24_PottedUntouched ==
    /\ [](pc = "play" =>
            \A j \in 1 .. Len(entities) :
               entities[j].potted => ~entities[j].vel /\ ~entities[j].acc)
    /\ [][FrameStep =>
            \A j \in 1 .. Len(entities') :
               (/\ entities'[j].kind \in RespawnKinds
                /\ entities'[j].id \in PottedIn(entities)
                /\ ~entities'[j].potted)
               => ~entities'[j].vel /\ ~entities'[j].acc]_vars

\* the classes whose balls come back to their start_pos after a pot
ReturningKinds == RespawnKinds \cup {"Player"}

\* C26 as stated: when the animation of a blue, black or gold ball or of the
\* cue ball, started when the ball was put back after a pot, completes in a
\* pass, the ball is exactly where it was constructed: its corner is the
\* corner Ball.__init__ computed from the layout's centre, so its centre is
\* that centre.
C26_RespawnWhereCreated ==
    [][FrameStep =>
        \A j \in 1 .. Len(entities), k \in 1 .. Len(entities') :
            (/\ entities[j].id = entities'[k].id
             /\ entities[j].kind \in ReturningKinds
             /\ entities[j].anim # "off"
             /\ entities'[k].anim = "off")
            => entities'[k].pos = "home"]_vars

---------------------------------------------------------------------------
(* A ball left to roll (specification RollSpec) *)

(***************************************************************************)
(* The bench with one ball, a, between two walls, c on its left and b on    *)
(* its right, updated pass after pass with the same dt, as Game.update      *)
(* does for every frame of a loop that runs at a fixed rate; the pointer    *)
(* is up, no force comes from outside.  bench.dt holds the dt of every      *)
(* pass.                                                                    *)
(***************************************************************************)

\* the velocity of the ball when it is let go, 10 to 100 px/s
RollVels == {10 * k * PX : k \in 1 .. 10}
\* the time between two frames, the same for all frames of a behaviour
RollDts == {10, 20, 50}
\* the distance from the ball to the wall on its right
RollGaps == {1 * PX, 20 * PX}
\* the distance from the ball to the wall on its left
RollLeft == 5 * PX

RollInputs ==
    {[a |-> BenchBall(ka, 100 * PX, va),
      b |-> BenchWall(100 * PX + 2 * Radius(ka) + g),
      c |-> BenchWall(100 * PX - RollLeft - THICKNESS * PX),
      op |-> "none", who |-> "a", dt |-> dt, hit |-> FALSE, force |-> 0,
      log |-> <<>>, n |-> 0] :
        ka \in BenchBallKinds, va \in RollVels, dt \in RollDts,
        g \in RollGaps}

RollInit == Constructed /\ bench \in RollInputs

\* one pass of Game.update over the ball and the walls: a.update(game, dt),
\* in which handle_collisions goes through both walls, of which the ball
\* reaches at most one; the update of a wall does nothing
Roll ==
    /\ LET left == update_of(bench.a, bench.c, bench.dt)
           right == update_of(bench.a, bench.b, bench.dt)
           r == IF left.hit THEN left ELSE right
       IN  bench' = [bench EXCEPT !.a = r.self,
                                  !.op = "update", !.hit = r.hit,
                                  !.force = r.force, !.log = r.log]
    /\ UNCHANGED game_vars

RollNext == Roll

\* the loop of Game.run calls update in every iteration
RollSpec == RollInit /\ [][RollNext]_vars /\ WF_vars(Roll)

\* C25 as stated: with the pointer up and the same dt > 0 in every frame,
\* the ball's velocity is exactly zero after finitely many passes and stays
\* zero, so that the pass finds no ball moving and the shot ends; the ball
\* is never left moving or oscillating forever.
C25_BallComesToRest == <>[](bench.a.v = 0)

====
